---- MODULE Spec2Model ----
(***************************************************************************)
(* Model of app/resources/sli/models.py: the compact day-bucket store of   *)
(* indicator values (update_indicator_value_compact, results_to_buckets,   *)
(* IndicatorValueCompact.get_indicator_values).                            *)
(*                                                                         *)
(* Text is modelled character by character: a Python str is a sequence of  *)
(* one-character strings.  A float is a record [k, sgn, mag]: k = "fin"    *)
(* with mag its magnitude in units of 10^-GridDigits (sgn = -1, mag = 0 is *)
(* Python's -0.0), k = "inf" (sgn gives the sign) or k = "nan".  A naive   *)
(* datetime is its number of seconds since day 0 (one calendar, no DST).   *)
(***************************************************************************)
EXTENDS Integers, Sequences, FiniteSets, TLC

(* ----------------------------- numbers -------------------------------- *)

\* round(val, 3): the number of decimals the code rounds to.
NDIGITS == 3

\* The decimal grid of the model's finite floats: one digit finer than the
\* rounding, so that rounding has something to round.
GridDigits == NDIGITS + 1

RECURSIVE Pow10(_)
Pow10(n) == IF n = 0 THEN 1 ELSE 10 * Pow10(n - 1)

Unit == Pow10(GridDigits)

Fin(s, m) == [k |-> "fin", sgn |-> s, mag |-> m]
Inf(s) == [k |-> "inf", sgn |-> s, mag |-> 0]
NaN == [k |-> "nan", sgn |-> 1, mag |-> 0]

\* A finite float as a signed number of grid units.
ToUnits(v) == v.sgn * v.mag

IsFinite(v) == v.k = "fin"

\* Python's float comparisons: every comparison with nan is False.
FloatLt(a, b) ==
  /\ a.k # "nan" /\ b.k # "nan"
  /\ IF a.k = "inf" THEN a.sgn = -1 /\ ~(b.k = "inf" /\ b.sgn = -1)
     ELSE IF b.k = "inf" THEN b.sgn = 1
     ELSE ToUnits(a) < ToUnits(b)

FloatGt(a, b) == FloatLt(b, a)

Zero == Fin(1, 0)

Neg(v) == IF v.k = "nan" THEN v ELSE [v EXCEPT !.sgn = -v.sgn]

\* Python's max(a, b) and min(a, b): the first argument unless the second
\* compares strictly greater (smaller).
PyMax(a, b) == IF FloatGt(b, a) THEN b ELSE a
PyMin(a, b) == IF FloatLt(b, a) THEN b ELSE a

\* results_to_buckets, lines 154-157: the clamp to MIN_VAL.
Clamp(val, minval) ==
  IF FloatGt(val, Zero) THEN PyMax(val, minval)
  ELSE IF FloatLt(val, Zero) THEN PyMin(val, Neg(minval))
  ELSE val

\* round(val, 3) of a float: nan and inf are returned as they are; a finite
\* value goes to the nearest multiple of 10^-3, an exact tie to the even one;
\* the sign is kept (round(-0.0003, 3) is -0.0).
RoundStep == Pow10(GridDigits - NDIGITS)
RoundNext(val) ==
  IF val.k # "fin" THEN val
  ELSE Fin(val.sgn, (val.mag \div RoundStep + 1) * RoundStep)
Round(val) ==
  IF val.k # "fin" THEN val
  ELSE LET q == val.mag \div RoundStep
           r == val.mag % RoundStep
           up == (2 * r > RoundStep) \/ (2 * r = RoundStep /\ q % 2 = 1)
       IN  Fin(val.sgn, (IF up THEN q + 1 ELSE q) * RoundStep)

\* Clamp then round, as line 161 stores it.
ClampAndRound(val, minval) == Round(Clamp(val, minval))

(* ------------------------------- text --------------------------------- *)

Digits == <<"0", "1", "2", "3", "4", "5", "6", "7", "8", "9">>
DigitSet == {Digits[i] : i \in 1..10}
DigitVal(c) == (CHOOSE i \in 1..10 : Digits[i] = c) - 1

\* str(n) of an int.
RECURSIVE NatStr(_)
NatStr(n) == IF n < 10 THEN <<Digits[n + 1]>>
             ELSE NatStr(n \div 10) \o <<Digits[(n % 10) + 1]>>
IntStr(n) == IF n < 0 THEN <<"-">> \o NatStr(-n) ELSE NatStr(n)

\* The fractional digits of f (a number of grid units below one), written on
\* w digits with the trailing zeros dropped, but never all of them.
RECURSIVE FracStr(_, _)
FracStr(f, w) ==
  IF w = 1 THEN <<Digits[f + 1]>>
  ELSE IF f % 10 = 0 THEN FracStr(f \div 10, w - 1)
  ELSE FracStr(f \div 10, w - 1) \o <<Digits[(f % 10) + 1]>>

\* str(v) of a float (repr: the shortest decimal that reads back as v).
FloatStrUnsigned(v) ==
  IF v.k = "nan" THEN <<"n", "a", "n">>
  ELSE IF v.k = "inf" THEN <<"i", "n", "f">>
  ELSE NatStr(v.mag \div Unit) \o <<".">> \o FracStr(v.mag % Unit, GridDigits)
FloatStr(v) ==
  IF v.k = "nan" THEN <<"n", "a", "n">>
  ELSE (IF v.sgn = -1 THEN <<"-">> ELSE <<>>) \o
       (IF v.k = "inf" THEN <<"i", "n", "f">>
        ELSE NatStr(v.mag \div Unit) \o <<".">> \o FracStr(v.mag % Unit, GridDigits))

\* s.split(sep): the pieces between the separators, empty ones included.
RECURSIVE Split(_, _)
Split(s, sep) ==
  IF \A i \in 1..Len(s) : s[i] # sep THEN <<s>>
  ELSE LET i == CHOOSE j \in 1..Len(s) :
                  s[j] = sep /\ \A h \in 1..(j - 1) : s[h] # sep
       IN  <<SubSeq(s, 1, i - 1)>> \o Split(SubSeq(s, i + 1, Len(s)), sep)

\* sep.join(parts)
RECURSIVE Join(_, _)
Join(parts, sep) ==
  IF Len(parts) = 0 THEN <<>>
  ELSE IF Len(parts) = 1 THEN parts[1]
  ELSE parts[1] \o <<sep>> \o Join(Tail(parts), sep)

AllDigits(s) == \A i \in 1..Len(s) : s[i] \in DigitSet

RECURSIVE DigitsVal(_)
DigitsVal(s) == IF Len(s) = 0 THEN 0
                ELSE 10 * DigitsVal(SubSeq(s, 1, Len(s) - 1)) + DigitVal(s[Len(s)])

HasSign(s) == Len(s) > 0 /\ s[1] \in {"-", "+"}
Unsigned(s) == IF HasSign(s) THEN Tail(s) ELSE s
SignOf(s) == IF Len(s) > 0 /\ s[1] = "-" THEN -1 ELSE 1

\* int(s): an optional sign and one or more digits; anything else raises
\* ValueError (ok = FALSE).  Blanks and underscores are not in the alphabet.
ParseInt(s) ==
  LET body == Unsigned(s)
  IN  IF Len(body) > 0 /\ AllDigits(body)
      THEN [ok |-> TRUE, val |-> SignOf(s) * DigitsVal(body)]
      ELSE [ok |-> FALSE, val |-> 0]

\* float(s): an optional sign, then nan, inf, or digits with at most one point
\* and at least one digit; anything else raises ValueError.  Exponents are not
\* in the alphabet; digits beyond the grid are never written by the model.
ParseFloat(s) ==
  LET body == Unsigned(s)
      sg == SignOf(s)
      parts == Split(body, ".")
      ip == parts[1]
      fp == IF Len(parts) = 2 THEN parts[2] ELSE <<>>
  IN  IF body = <<"n", "a", "n">> THEN [ok |-> TRUE, val |-> NaN]
      ELSE IF body = <<"i", "n", "f">> THEN [ok |-> TRUE, val |-> Inf(sg)]
      ELSE IF /\ Len(parts) <= 2
              /\ AllDigits(ip) /\ AllDigits(fp)
              /\ Len(ip) + Len(fp) > 0
              /\ Len(fp) <= GridDigits
      THEN [ok |-> TRUE,
            val |-> Fin(sg, DigitsVal(ip) * Unit
                              + DigitsVal(fp) * Pow10(GridDigits - Len(fp)))]
      ELSE [ok |-> FALSE, val |-> NaN]

(* ------------------------- results_to_buckets ------------------------- *)

SecondsPerMinute == 60
SecondsPerDay == 24 * 60 * SecondsPerMinute

\* datetime(minute.year, minute.month, minute.day): midnight of the date.
DayOf(minute) == (minute \div SecondsPerDay) * SecondsPerDay

\* int((minute - day).total_seconds() / 60)
OffsetRounded(minute) ==
  (minute - DayOf(minute) + SecondsPerMinute \div 2) \div SecondsPerMinute
OffsetOf(minute) == (minute - DayOf(minute)) \div SecondsPerMinute

\* buckets[day].append(unit) on a defaultdict(list): a dict keeps the order in
\* which its keys were first inserted.
BucketAppendDedup(buckets, day, unit) ==
  LET Put(values) ==
        IF \E m \in 1..Len(values) : values[m][1] = unit[1]
        THEN [m \in 1..Len(values) |->
                IF values[m][1] = unit[1] THEN unit ELSE values[m]]
        ELSE Append(values, unit)
  IN  IF \E i \in 1..Len(buckets) : buckets[i].day = day
      THEN [i \in 1..Len(buckets) |->
              IF buckets[i].day = day
              THEN [buckets[i] EXCEPT !.values = Put(@)]
              ELSE buckets[i]]
      ELSE Append(buckets, [day |-> day, values |-> <<unit>>])
BucketAppendNew(buckets, day, unit) ==
  Append(buckets, [day |-> day, values |-> <<unit>>])
BucketAppend(buckets, day, unit) ==
  IF \E i \in 1..Len(buckets) : buckets[i].day = day
  THEN [i \in 1..Len(buckets) |->
          IF buckets[i].day = day
          THEN [buckets[i] EXCEPT !.values = Append(@, unit)]
          ELSE buckets[i]]
  ELSE Append(buckets, [day |-> day, values |-> <<unit>>])

\* results is the caller's dict as the sequence of its items <<minute, val>>,
\* in iteration order, the keys distinct.
RECURSIVE BucketsFrom(_, _, _)
BucketsFrom(results, minval, buckets) ==
  IF Len(results) = 0 THEN buckets
  ELSE LET minute == results[1][1]
           val == ClampAndRound(results[1][2], minval)
       IN  BucketsFrom(Tail(results), minval,
             BucketAppend(buckets, DayOf(minute), <<OffsetOf(minute), val>>))

BucketsWithEmptyDay(results, minval) ==
  IF Len(results) = 0 THEN <<[day |-> 0, values |-> <<>>]>>
  ELSE BucketsFrom(results, minval, <<>>)
results_to_buckets(results, minval) == BucketsFrom(results, minval, <<>>)

(* ------------------------------ the codec ----------------------------- *)

\* '{}:{}'.format(str(v[0]), str(v[1]))
Token(v) == IntStr(v[1]) \o <<":">> \o FloatStr(v[2])

\* line 134: ','.join([...]) + ','
Encode(values) ==
  Join([i \in 1..Len(values) |-> Token(values[i])], ",") \o <<",">>

\* ivs.update({key: value}) on a dict: a new key goes last, a known key keeps
\* its place and takes the new value.
DictKeepFirst(d, key, value) ==
  IF \E i \in 1..Len(d) : d[i][1] = key THEN d ELSE Append(d, <<key, value>>)
DictUpdate(d, key, value) ==
  IF \E i \in 1..Len(d) : d[i][1] = key
  THEN [i \in 1..Len(d) |-> IF d[i][1] = key THEN <<key, value>> ELSE d[i]]
  ELSE Append(d, <<key, value>>)

NonEmpty(t) == Len(t) > 0

\* [t.split(':') for t in self.values.split(',') if t]
Fields(values) ==
  LET tokens == SelectSeq(Split(values, ","), NonEmpty)
  IN  [i \in 1..Len(tokens) |-> Split(tokens[i], ":")]

\* One field list v is read as int(v[0]) and float(v[1]): int and float raise
\* ValueError on text they do not parse, v[1] raises IndexError when the token
\* held no ':'; fields after the second are never looked at.
FieldOk(v) == Len(v) >= 2 /\ ParseInt(v[1]).ok /\ ParseFloat(v[2]).ok

RECURSIVE Fill(_, _, _)
Fill(fields, timebucket, ivs) ==
  IF Len(fields) = 0 THEN ivs
  ELSE Fill(Tail(fields), timebucket,
            DictUpdate(ivs,
                       timebucket + ParseInt(fields[1][1]).val * SecondsPerMinute,
                       ParseFloat(fields[1][2]).val))

\* IndicatorValueCompact.get_indicator_values of a row: raised = TRUE when the
\* comprehension raises (nothing is returned then), else the IndicatorValue
\* list in the order of the dict.
get_indicator_values(row) ==
  LET fields == Fields(row.values)
  IN  IF \E i \in 1..Len(fields) : ~FieldOk(fields[i])
      THEN [raised |-> TRUE, list |-> <<>>]
      ELSE LET ivs == Fill(fields, row.timebucket, <<>>)
           IN  [raised |-> FALSE,
                list |-> [i \in 1..Len(ivs) |->
                            [timestamp |-> ivs[i][1], value |-> ivs[i][2],
                             indicator_id |-> row.indicator_id]]]

(* ------------------------------ the store ----------------------------- *)

VARIABLES
  MIN_VAL,      \* app.libs.zmon.MIN_VAL, a positive float
  compact,      \* table indicatorvaluecompact: a set of rows
  pc,           \* per caller: "idle", "loop", "returned" or "raised"
  args,         \* per caller: the arguments of its call, and the call's number
  day_buckets,  \* per caller: the local day_buckets, in iteration order
  pos,          \* per caller: how many iterations of the loop are complete
  attempts,     \* per caller: session.execute calls made for the current statement
  log,          \* the statements the storage engine executed, in its serial order
  ncalls,       \* calls started so far
  retried,      \* whether one of them was a repeated call
  read,         \* what the last get_indicator_values call was given and returned
  raw,          \* table indicatorvalue: a set of rows
  rawlog        \* the statements executed on indicatorvalue, in serial order

vars == <<MIN_VAL, compact, pc, args, day_buckets, pos, attempts, log, ncalls,
          retried, read, raw, rawlog>>

\* Bounds of the model.
MaxBatch == 2

Writers == {"A", "B"}
Indicators == {1, 2}

\* The instants callers sample at: 00:00:00 and 15:53:00 of day 0, 00:00:00
\* of day 1.
Instants == {0, 953 * SecondsPerMinute, SecondsPerDay}

\* The values callers send: below the floor, above it.
Values == {Fin(1, 3), Fin(1, 2 * Unit)}

\* MIN_VAL of the store's runs: 0.1.
StoreMinVal == Fin(1, Unit \div 10)

\* The dicts a caller may pass: at most MaxBatch items, the keys distinct.
Batches(instants, vals) ==
  {r \in UNION {[1..n -> instants \X vals] : n \in 0..MaxBatch} :
     \A i, j \in 1..Len(r) : i # j => r[i][1] # r[j][1]}

\* Indicator ids are only compared with each other, so the first call's id is
\* fixed and the later calls choose theirs freely.
CallableIds == IF ncalls = 0 THEN {1} ELSE Indicators

NoArgs == [indicator_id |-> 0, results |-> <<>>, call |-> 0, retryOf |-> 0]

\* Everything but MIN_VAL and the compact table: no call has been made, and
\* indicatorvalue is empty.
NoCalls ==
  /\ pc = [w \in Writers |-> "idle"]
  /\ args = [w \in Writers |-> NoArgs]
  /\ day_buckets = [w \in Writers |-> <<>>]
  /\ pos = [w \in Writers |-> 0]
  /\ attempts = [w \in Writers |-> 0]
  /\ log = <<>>
  /\ ncalls = 0
  /\ retried = FALSE
  /\ read = <<>>
  /\ raw = {}
  /\ rawlog = <<>>

Init ==
  /\ MIN_VAL = StoreMinVal
  /\ compact = {}
  /\ NoCalls

HasRow(table, timebucket, indicator_id) ==
  \E r \in table : r.timebucket = timebucket /\ r.indicator_id = indicator_id

RowOf(table, timebucket, indicator_id) ==
  CHOOSE r \in table : r.timebucket = timebucket /\ r.indicator_id = indicator_id

\* set_={'values': concat(IndicatorValueCompact.values, value_units_compact)}
ConflictOverwrite(old, new) == new
ConflictPrepend(old, new) == new \o old
OnConflict(old, new) == old \o new

\* The statement of lines 136-147 as PostgreSQL executes it: INSERT ... ON
\* CONFLICT ON CONSTRAINT (timebucket, indicator_id) DO UPDATE, one atomic
\* step on the row.
UpsertAllDays(table, timebucket, indicator_id, values) ==
  IF HasRow(table, timebucket, indicator_id)
  THEN {IF r.indicator_id = indicator_id
        THEN [r EXCEPT !.values = OnConflict(r.values, values)]
        ELSE r : r \in table}
  ELSE table \cup {[timebucket |-> timebucket, indicator_id |-> indicator_id,
                    values |-> values]}
UpsertReplace(table, timebucket, indicator_id, values) ==
  {r \in table : ~(r.timebucket = timebucket /\ r.indicator_id = indicator_id)}
    \cup {[timebucket |-> timebucket, indicator_id |-> indicator_id,
            values |-> values]}
Upsert(table, timebucket, indicator_id, values) ==
  IF HasRow(table, timebucket, indicator_id)
  THEN LET old == RowOf(table, timebucket, indicator_id)
       IN  (table \ {old}) \cup
             {[old EXCEPT !.values = OnConflict(old.values, values)]}
  ELSE table \cup {[timebucket |-> timebucket, indicator_id |-> indicator_id,
                    values |-> values]}

\* What the loop does when session.execute raises: there is no try/except, so
\* the exception leaves the function.
PcOnErrorRetry(w) == IF attempts[w] < 2 THEN "loop" ELSE "raised"
PcOnError(w) == "raised"

\* The entry of update_indicator_value_compact and line 131.
Enter(w, id, results, retryOf) ==
  LET buckets == results_to_buckets(results, MIN_VAL)
  IN  /\ ncalls' = ncalls + 1
      /\ args' = [args EXCEPT ![w] = [indicator_id |-> id, results |-> results,
                                      call |-> ncalls + 1, retryOf |-> retryOf]]
      /\ day_buckets' = [day_buckets EXCEPT ![w] = buckets]
      /\ pos' = [pos EXCEPT ![w] = 0]
      /\ attempts' = [attempts EXCEPT ![w] = 0]
      /\ pc' = [pc EXCEPT ![w] = IF Len(buckets) = 0 THEN "returned" ELSE "loop"]
      /\ UNCHANGED <<MIN_VAL, compact, log, read, raw, rawlog>>

\* A caller calls update_indicator_value_compact(session, id, results).
Call(w, instants, vals) ==
  /\ pc[w] = "idle"
  /\ \E id \in CallableIds, results \in Batches(instants, vals) :
       Enter(w, id, results, 0)
  /\ UNCHANGED retried

\* A caller whose call returned calls again with the same arguments (it timed
\* out waiting, say, and does not know that the call landed).  The model
\* follows one repeated call.
Retry(w) ==
  /\ pc[w] = "returned"
  /\ ~retried
  /\ retried' = TRUE
  /\ Enter(w, args[w].indicator_id, args[w].results, args[w].call)

\* One iteration of the loop, lines 133-147: the statement executes.
Execute(w) ==
  /\ pc[w] = "loop"
  /\ LET b == day_buckets[w][pos[w] + 1]
         value_units_compact == Encode(b.values)
     IN  /\ compact' = Upsert(compact, b.day, args[w].indicator_id,
                              value_units_compact)
         /\ log' = Append(log, [w |-> w, call |-> args[w].call,
                                timebucket |-> b.day,
                                indicator_id |-> args[w].indicator_id,
                                pairs |-> b.values])
  /\ pos' = [pos EXCEPT ![w] = @ + 1]
  /\ attempts' = [attempts EXCEPT ![w] = 0]
  /\ pc' = [pc EXCEPT ![w] =
              IF pos[w] + 1 = Len(day_buckets[w]) THEN "returned" ELSE "loop"]
  /\ UNCHANGED <<MIN_VAL, args, day_buckets, ncalls, retried, read, raw, rawlog>>

\* session.execute raises (a conflict the engine could not resolve, a deadlock,
\* a lost connection): nothing is written.
Raise(w) ==
  /\ pc[w] = "loop"
  /\ attempts' = [attempts EXCEPT ![w] = @ + 1]
  /\ pc' = [pc EXCEPT ![w] = PcOnError(w)]
  /\ UNCHANGED <<MIN_VAL, compact, args, day_buckets, pos, log, ncalls, retried,
                 read, raw, rawlog>>

\* A reader loads a row and calls get_indicator_values on it.
Read ==
  /\ \E row \in compact :
       read' = <<[row |-> row, result |-> get_indicator_values(row)]>>
  /\ UNCHANGED <<MIN_VAL, compact, pc, args, day_buckets, pos, attempts, log,
                 ncalls, retried, raw, rawlog>>

Next ==
  \E w \in Writers :
    \/ Call(w, Instants, Values)
    \/ Execute(w)
    \/ Raise(w)

\* The callers of the store, each making one call.
Spec == Init /\ [][Next]_vars

NextRetry ==
  \E w \in Writers :
    \/ Call(w, Instants, Values)
    \/ Retry(w)
    \/ Execute(w)

\* The callers of the store, one of them repeating a call that landed; the
\* engine executes every statement.
SpecRetry == Init /\ [][NextRetry]_vars

(* ------------------------- the codec on its own ----------------------- *)

MaxBlobLen == 5
MaxFloor == 12
MaxInput == 12

\* A finite float of the grid stands for a Python float only if rounding it
\* does not hinge on binary digits the grid does not hold: it is off every
\* decimal tie, or it is a tie that a float holds exactly (a multiple of 1/16).
OnGrid(m) == 2 * (m % RoundStep) # RoundStep \/ (16 * m) % Unit = 0

\* One caller, samples of one day: 00:00:00, 00:00:30 (the same minute),
\* 15:53:00 and 23:59:30; values that are zero, below the floor, negative, on
\* a tie (1.0625, 0.1875) and plain.
CodecInstants ==
  {0, 30, 953 * SecondsPerMinute, SecondsPerDay - 30}
CodecValues ==
  {Zero, Fin(1, 3), Fin(-1, Unit + 625), Fin(1, 1875), Fin(1, 2 * Unit)}

NextCodec ==
  \/ Call("A", CodecInstants, CodecValues)
  \/ Execute("A")
  \/ Read

\* One call writes a bucket and a reader decodes it.
SpecCodec == Init /\ [][NextCodec]_vars

\* The text a values column may hold when it was not written by the store.
Alphabet == {"1", ":", ",", "x"}
Blobs == UNION {[1..n -> Alphabet] : n \in 0..MaxBlobLen}

InitDecode ==
  /\ MIN_VAL = StoreMinVal
  /\ \E b \in Blobs :
       compact = {[timebucket |-> 0, indicator_id |-> 1, values |-> b]}
  /\ NoCalls

\* A reader decodes a row of any text.
SpecDecode == InitDecode /\ [][Read]_vars

\* The store with one caller whose values may be nan, inf or -inf.
AnyValues == Values \cup {NaN, Inf(1), Inf(-1)}

NextAny ==
  \/ Call("A", Instants, AnyValues)
  \/ Execute("A")
  \/ Raise("A")

SpecAny == Init /\ [][NextAny]_vars

\* The store with any small floor: one caller, one sample per call.
Floors == {Fin(1, m) : m \in {n \in 1..MaxFloor : OnGrid(n)}}
ClampValues ==
  {Fin(sg, m) : sg \in {1, -1}, m \in {n \in 0..MaxInput : OnGrid(n)}}

InitClamp ==
  /\ MIN_VAL \in Floors
  /\ compact = {}
  /\ NoCalls

NextClamp ==
  \/ Call("A", {0}, ClampValues)
  \/ Execute("A")

SpecClamp == InitClamp /\ [][NextClamp]_vars

\* The samples of caller w's call with the values its buckets hold for them:
\* sample i is the n-th unit of its day's bucket, n counting the samples of
\* that day up to i.
Stored(w) ==
  LET results == args[w].results
      UnitOf(i) ==
        LET b == CHOOSE b \in {day_buckets[w][n] : n \in 1..Len(day_buckets[w])} :
                   b.day = DayOf(results[i][1])
            n == Cardinality({j \in 1..i : DayOf(results[j][1]) = b.day})
        IN  b.values[n]
  IN  [i \in 1..Len(results) |-> <<results[i][1], UnitOf(i)[2]>>]

\* A caller whose call returned passes the values that call stored to the
\* store again (a job that re-reports what it computed from stored values).
\* The model follows one such call.
Resubmit(w) ==
  /\ pc[w] = "returned"
  /\ ~retried
  /\ retried' = TRUE
  /\ Enter(w, args[w].indicator_id, Stored(w), args[w].call)

NextReclamp ==
  \/ Call("A", {0}, ClampValues)
  \/ Resubmit("A")
  \/ Execute("A")

\* The store with any small floor; the caller passes stored values again.
SpecReclamp == InitClamp /\ [][NextReclamp]_vars

(* --------------------------- the raw table --------------------------- *)

MaxRaw == 3

\* IndicatorValue.as_dict() and update_dict(), lines 62-70.
as_dict(sli_value) ==
  [timestamp |-> sli_value.timestamp, value |-> sli_value.value,
   indicator_id |-> sli_value.indicator_id]
update_dict(sli_value) == [value |-> sli_value.value]

\* on_conflict_do_update(constraint=..., set_=set): the row that is there
\* gets the columns of set.
RawKeepOld(old, set) == old
RawAddUp(old, set) ==
  [old EXCEPT !.value = Fin(1, ToUnits(old.value) + ToUnits(set.value))]
RawOnConflict(old, set) == [old EXCEPT !.value = set.value]

\* The statement of lines 83-89 as PostgreSQL executes it: INSERT ... ON
\* CONFLICT ON CONSTRAINT (timestamp, indicator_id) DO UPDATE, one atomic
\* step on the row.
RawUpsert(table, row, set) ==
  LET Same(r) == r.timestamp = row.timestamp /\ r.indicator_id = row.indicator_id
  IN  IF \E r \in table : Same(r)
      THEN {IF Same(r) THEN RawOnConflict(r, set) ELSE r : r \in table}
      ELSE table \cup {row}

\* insert_indicator_value(session, sli_value): one statement, executed; the
\* function neither commits nor rolls back.
insert_indicator_value(sli_value) ==
  /\ Len(rawlog) < MaxRaw
  /\ raw' = RawUpsert(raw, as_dict(sli_value), update_dict(sli_value))
  /\ rawlog' = Append(rawlog, sli_value)
  /\ UNCHANGED <<MIN_VAL, compact, pc, args, day_buckets, pos, attempts, log,
                 ncalls, retried, read>>

\* Some session upserts a raw value.
Insert(instants, ids, vals) ==
  \E t \in instants, id \in ids, v \in vals :
    insert_indicator_value([timestamp |-> t, value |-> v, indicator_id |-> id])

\* Raw values of two minutes; the raw path neither clamps nor rounds.
RawInstants == {0, SecondsPerMinute}
RawValues == {Fin(1, 3), Fin(1, 2 * Unit)}

NextRaw == Insert(RawInstants, Indicators, RawValues)

\* Sessions upserting raw values, in the order the engine serializes them.
SpecRaw == Init /\ [][NextRaw]_vars

\* Both stores in use: the callers of the compact store send one value, and
\* sessions upsert one raw value at 00:00:00 for either indicator.
FrameValues == {Fin(1, 2 * Unit)}
FrameRawInstants == {0}
FrameRawValues == {Fin(1, 3)}

NextFrame ==
  \/ \E w \in Writers :
       \/ Call(w, Instants, FrameValues)
       \/ Execute(w)
  \/ Insert(FrameRawInstants, Indicators, FrameRawValues)

SpecFrame == Init /\ [][NextFrame]_vars

\* The callers of the compact store, sending one value, with statements that
\* may fail.
NextFail ==
  \E w \in Writers :
    \/ Call(w, Instants, FrameValues)
    \/ Execute(w)
    \/ Raise(w)

SpecFail == Init /\ [][NextFail]_vars

\* One caller whose samples lie at the edges of days: 00:00:00 and 23:59:30
\* of day 0, 00:00:00, 00:00:59 and 23:59:59 of day 1.
BucketInstants ==
  {0, SecondsPerDay - 30, SecondsPerDay, SecondsPerDay + 59,
   2 * SecondsPerDay - 1}

NextBuckets ==
  \/ Call("A", BucketInstants, Values)
  \/ Execute("A")

SpecBuckets == Init /\ [][NextBuckets]_vars

(* --------------------- what the properties speak of ------------------- *)

IsPrefix(s, t) == Len(s) <= Len(t) /\ SubSeq(t, 1, Len(s)) = s

Offsets(pairs) == {pairs[i][1] : i \in 1..Len(pairs)}

\* The value of the last pair of pairs that has offset o.
LastValue(pairs, o) ==
  pairs[CHOOSE i \in 1..Len(pairs) :
          pairs[i][1] = o /\ \A j \in (i + 1)..Len(pairs) : pairs[j][1] # o][2]

\* The pairs folded left to right, a later pair replacing an earlier one of the
\* same offset, keyed by timebucket + offset minutes.
FoldMap(pairs, timebucket) ==
  [t \in {timebucket + o * SecondsPerMinute : o \in Offsets(pairs)} |->
     LastValue(pairs, (t - timebucket) \div SecondsPerMinute)]

\* The result of get_indicator_values as a mapping from timestamp to value.
ListMap(list) ==
  [t \in {list[i].timestamp : i \in 1..Len(list)} |->
     list[CHOOSE i \in 1..Len(list) : list[i].timestamp = t].value]

\* get_indicator_values(row) returns, one record per timestamp, the mapping m.
DecodesTo(row, m) ==
  LET res == get_indicator_values(row)
  IN  /\ ~res.raised
      /\ \A i, j \in 1..Len(res.list) :
           res.list[i].timestamp = res.list[j].timestamp => i = j
      /\ \A i \in 1..Len(res.list) : res.list[i].indicator_id = row.indicator_id
      /\ ListMap(res.list) = m

\* The statements executed on one key, in the engine's serial order.
KeyLog(timebucket, indicator_id) ==
  LET OnKey(e) == e.timebucket = timebucket /\ e.indicator_id = indicator_id
  IN  SelectSeq(log, OnKey)

LoggedKeys == {<<log[i].timebucket, log[i].indicator_id>> : i \in 1..Len(log)}
StoredKeys == {<<r.timebucket, r.indicator_id>> : r \in compact}

RowsOf(table, k) == {r \in table : r.timebucket = k[1] /\ r.indicator_id = k[2]}

RECURSIVE Segments(_)
Segments(entries) ==
  IF Len(entries) = 0 THEN <<>>
  ELSE Encode(entries[1].pairs) \o Segments(Tail(entries))

RECURSIVE AllPairs(_)
AllPairs(entries) ==
  IF Len(entries) = 0 THEN <<>> ELSE entries[1].pairs \o AllPairs(Tail(entries))

\* Caller w takes the step that executes the statement of its current bucket.
Executes(w) == pc[w] = "loop" /\ pos'[w] = pos[w] + 1

CurrentBucket(w) == day_buckets[w][pos[w] + 1]

(* ------------------------------- C1 ----------------------------------- *)

\* C1: whatever the interleaving of the callers' statements, the blob of a key
\* is the concatenation of the encoded segments of the statements executed on
\* that key, each whole, in the engine's serial order, one row per key; and a
\* call that returned has had exactly one statement executed for each day of
\* its batch, carrying that day's pairs.
C1_SegmentsWholeOncePerCall ==
  /\ StoredKeys = LoggedKeys
  /\ \A k \in StoredKeys :
       /\ Cardinality(RowsOf(compact, k)) = 1
       /\ \A r \in RowsOf(compact, k) : r.values = Segments(KeyLog(k[1], k[2]))
  /\ \A w \in Writers :
       pc[w] = "returned" =>
         \A n \in 1..Len(day_buckets[w]) :
           LET mine == {i \in 1..Len(log) :
                          /\ log[i].call = args[w].call
                          /\ log[i].timebucket = day_buckets[w][n].day}
           IN  /\ Cardinality(mine) = 1
               /\ \A i \in mine :
                    /\ log[i].pairs = day_buckets[w][n].values
                    /\ log[i].indicator_id = args[w].indicator_id

\* Two calls overlapped on one key: the call that started first had its
\* statement serialized after the other's, and both have returned.
C1_Witness ==
  /\ \A w \in Writers : pc[w] = "returned"
  /\ \E i, j \in 1..Len(log) :
       /\ i < j
       /\ log[i].w # log[j].w
       /\ log[i].timebucket = log[j].timebucket
       /\ log[i].indicator_id = log[j].indicator_id
       /\ log[j].call < log[i].call
       /\ log[i].pairs # log[j].pairs

(* ------------------------------- C2 ----------------------------------- *)

\* C2: a key that has had exactly two statements executed, with pairs P1 then
\* P2, holds one row whose blob is Encode(P1) followed by Encode(P2), and the
\* row decodes to the fold of P1 then P2.
C2_AppendAccumulates ==
  \A k \in LoggedKeys :
    LET entries == KeyLog(k[1], k[2])
    IN  Len(entries) = 2 =>
          /\ Cardinality(RowsOf(compact, k)) = 1
          /\ \A r \in RowsOf(compact, k) :
               /\ r.values = Encode(entries[1].pairs) \o Encode(entries[2].pairs)
               /\ DecodesTo(r, FoldMap(entries[1].pairs \o entries[2].pairs, k[1]))

\* Two upserts on one key, the second giving another value to an offset of the
\* first and adding an offset of its own.
C2_Witness ==
  \E k \in LoggedKeys :
    LET entries == KeyLog(k[1], k[2])
    IN  /\ Len(entries) = 2
        /\ \E o \in Offsets(entries[1].pairs) \cap Offsets(entries[2].pairs) :
             LastValue(entries[1].pairs, o) # LastValue(entries[2].pairs, o)
        /\ Offsets(entries[2].pairs) \ Offsets(entries[1].pairs) # {}

(* ------------------------------- C4 ----------------------------------- *)

\* The last statement in the serial order, on key k, that holds offset o.
LastWriter(k, o) ==
  LET entries == KeyLog(k[1], k[2])
  IN  entries[CHOOSE i \in 1..Len(entries) :
                /\ o \in Offsets(entries[i].pairs)
                /\ \A j \in (i + 1)..Len(entries) : o \notin Offsets(entries[j].pairs)]

\* C4: for every key and every offset written to it, the value the row decodes
\* to for that offset is the one given by the statement serialized last among
\* those that hold the offset, whatever the order the calls started in.
C4_LastSerializedWins ==
  \A r \in compact :
    LET k == <<r.timebucket, r.indicator_id>>
        res == get_indicator_values(r)
    IN  /\ ~res.raised
        /\ \A o \in Offsets(AllPairs(KeyLog(k[1], k[2]))) :
             LET t == k[1] + o * SecondsPerMinute
             IN  /\ \E i \in 1..Len(res.list) : res.list[i].timestamp = t
                 /\ \A i \in 1..Len(res.list) :
                      res.list[i].timestamp = t =>
                        res.list[i].value = LastValue(LastWriter(k, o).pairs, o)

\* Two callers wrote different values for one offset of one key; the one that
\* called first was serialized last.
C4_Witness ==
  \E i, j \in 1..Len(log) :
    /\ i < j
    /\ log[i].w # log[j].w
    /\ log[i].timebucket = log[j].timebucket
    /\ log[i].indicator_id = log[j].indicator_id
    /\ log[j].call < log[i].call
    /\ \E o \in Offsets(log[i].pairs) \cap Offsets(log[j].pairs) :
         LastValue(log[i].pairs, o) # LastValue(log[j].pairs, o)
    /\ \A w \in Writers : pc[w] = "returned"

(* ------------------------------- C5 ----------------------------------- *)

\* C5: in every step, every row is still there afterwards and its blob before
\* the step is a prefix of its blob after it.
C5_BlobOnlyGrows ==
  [][\A r \in compact :
       \E r2 \in compact' :
         /\ r2.timebucket = r.timebucket
         /\ r2.indicator_id = r.indicator_id
         /\ IsPrefix(r.values, r2.values)]_vars

\* A blob that has grown by an entry whose offset it already held.
C5_Witness ==
  \E k \in LoggedKeys :
    LET entries == KeyLog(k[1], k[2])
    IN  /\ Len(entries) >= 2
        /\ Offsets(entries[1].pairs) \cap Offsets(entries[2].pairs) # {}

(* ------------------------------- C6 ----------------------------------- *)

\* The bucket's row before and after a step decode to the same mapping.
SameDecode(timebucket, indicator_id) ==
  \A r \in RowsOf(compact, <<timebucket, indicator_id>>) :
    \A r2 \in RowsOf(compact', <<timebucket, indicator_id>>) :
      LET before == get_indicator_values(r)
          after == get_indicator_values(r2)
      IN  /\ before.raised = after.raised
          /\ ListMap(before.list) = ListMap(after.list)

\* The statements serialized on the current key of w after the statement of
\* the call that w is repeating.
SinceFirstAttempt(w) ==
  LET entries == KeyLog(CurrentBucket(w).day, args[w].indicator_id)
      first == CHOOSE i \in 1..Len(entries) : entries[i].call = args[w].retryOf
  IN  SubSeq(entries, first + 1, Len(entries))

\* C6 as stated: a statement of a repeated call never changes what its bucket
\* decodes to, whatever was appended since the first attempt.
C6_RetryNeverChangesDecode ==
  [][\A w \in Writers :
       (Executes(w) /\ args[w].retryOf # 0) =>
         SameDecode(CurrentBucket(w).day, args[w].indicator_id)]_vars

\* C6 amended: a statement of a repeated call does not change what its bucket
\* decodes to when no statement serialized on the key since the first attempt
\* holds an offset of the repeated segment.
C6_RetryHarmlessWhenUndisturbed ==
  [][\A w \in Writers :
       (/\ Executes(w)
        /\ args[w].retryOf # 0
        /\ Offsets(AllPairs(SinceFirstAttempt(w)))
             \cap Offsets(CurrentBucket(w).values) = {}) =>
         SameDecode(CurrentBucket(w).day, args[w].indicator_id)]_vars

\* A repeated call's statement has been executed on a key another caller
\* appended to since the first attempt, at another offset.
C6_Witness ==
  \E i, j, h \in 1..Len(log) :
    /\ i < j /\ j < h
    /\ log[i].w = log[h].w /\ log[j].w # log[i].w
    /\ log[i].call < log[h].call
    /\ log[i].pairs = log[h].pairs
    /\ \A e \in {log[j], log[h]} :
         e.timebucket = log[i].timebucket /\ e.indicator_id = log[i].indicator_id
    /\ Offsets(log[j].pairs) \cap Offsets(log[i].pairs) = {}
    /\ retried

(* ------------------------------- C9 ----------------------------------- *)

C3_RoundTrip ==
  \A i \in 1..Len(read) :
    LET row == read[i].row
        res == read[i].result
        entries == KeyLog(row.timebucket, row.indicator_id)
    IN  Len(entries) = 1 =>
          /\ row.values = Encode(entries[1].pairs)
          /\ ~res.raised
          /\ \A m, n \in 1..Len(res.list) :
               res.list[m].timestamp = res.list[n].timestamp => m = n
          /\ ListMap(res.list) = FoldMap(entries[1].pairs, row.timebucket)

\* A decoded segment of two pairs of one offset with different values, the
\* later one negative.
C3_Witness ==
  /\ Len(read) = 1
  /\ Len(log) = 1
  /\ Len(log[1].pairs) = 2
  /\ log[1].pairs[1][1] = log[1].pairs[2][1]
  /\ log[1].pairs[1][2] # log[1].pairs[2][2]
  /\ log[1].pairs[2][2].sgn = -1
  /\ Len(read[1].result.list) = 1

(* ------------------------------- C7 ----------------------------------- *)

ColonCount(t) == Cardinality({i \in 1..Len(t) : t[i] = ":"})

\* A non-empty token that does not hold exactly one ':' or has a side that
\* int (left) or float (right) does not parse.
BadToken(t) ==
  \/ ColonCount(t) # 1
  \/ ~ParseInt(Split(t, ":")[1]).ok
  \/ ~ParseFloat(Split(t, ":")[2]).ok

HasBadToken(values) ==
  LET tokens == Split(values, ",")
  IN  \E i \in 1..Len(tokens) : Len(tokens[i]) > 0 /\ BadToken(tokens[i])

\* C7 as stated: get_indicator_values raises, returning nothing, exactly when
\* some non-empty token is bad; the empty blob decodes to the empty list.
C7_RejectsUnlessExactlyOneColon ==
  \A i \in 1..Len(read) :
    LET row == read[i].row
        res == read[i].result
    IN  /\ res.raised <=> HasBadToken(row.values)
        /\ res.raised => res.list = <<>>
        /\ row.values = <<>> => ~res.raised /\ res.list = <<>>

(* ------------------------------- C8 ----------------------------------- *)

\* A batch with a value that is not finite or a sample whose offset is not in
\* 0..1439.
Malformed(results) ==
  \E i \in 1..Len(results) :
    \/ ~IsFinite(results[i][2])
    \/ OffsetOf(results[i][1]) \notin 0..(24 * 60 - 1)

\* C8 as stated: no step of a call whose batch is malformed changes the table.
C8_MalformedBatchWritesNothing ==
  [][\A w \in Writers :
       (pc[w] = "loop" /\ Malformed(args[w].results)) => compact' = compact]_vars

(* ------------------------------- C10 ---------------------------------- *)

Sign(v) == IF FloatGt(v, Zero) THEN 1 ELSE IF FloatLt(v, Zero) THEN -1 ELSE 0

\* C10 as stated: the value a call puts in its bucket has the sign of the
\* value the caller passed.
C10_ClampAndRoundKeepsSign ==
  \A w \in Writers :
    (Len(args[w].results) = 1 /\ IsFinite(args[w].results[1][2])) =>
      /\ Len(day_buckets[w]) = 1
      /\ Len(day_buckets[w][1].values) = 1
      /\ Sign(day_buckets[w][1].values[1][2]) = Sign(args[w].results[1][2])

(* ------------------------------- C11 ---------------------------------- *)

\* C11: clamp-and-round is idempotent on finite values: a call that is given
\* the values an earlier call stored puts exactly those values in its
\* buckets.
C11_ClampAndRoundIdempotent ==
  \A w \in Writers :
    (args[w].retryOf # 0 /\ \A i \in 1..Len(args[w].results) :
                              IsFinite(args[w].results[i][2])) =>
      Stored(w) = args[w].results

\* The floor is 0.0012 and the stored value 0.001 lies under it: the second
\* application lifts it to the floor and rounds it back.
C11_Witness ==
  /\ MIN_VAL = Fin(1, 12)
  /\ args["A"].retryOf # 0
  /\ args["A"].results = <<<<0, Fin(1, 10)>>>>
  /\ day_buckets["A"][1].values = <<<<0, Fin(1, 10)>>>>
  /\ pc["A"] = "returned"

(* ------------------------------- C12 ---------------------------------- *)

\* The samples of results that lie in the day starting at day, in order.
SamplesOfDay(results, day) ==
  LET InDay(s) == day <= s[1] /\ s[1] < day + SecondsPerDay
  IN  SelectSeq(results, InDay)

LastMinute == SecondsPerDay \div SecondsPerMinute - 1

\* C12: every sample is in the bucket of the midnight that starts its date,
\* and its offset is the whole minutes elapsed since that midnight, the
\* seconds dropped: an integer of 0..1439, 0 at midnight and 1439 at 23:59:30.
C12_DayAndOffsetOfInstant ==
  \A w \in Writers :
    LET results == args[w].results
        buckets == day_buckets[w]
    IN  /\ \A i \in 1..Len(results) :
             \E n \in 1..Len(buckets) :
               /\ buckets[n].day <= results[i][1]
               /\ results[i][1] < buckets[n].day + SecondsPerDay
        /\ \A n \in 1..Len(buckets) :
             LET b == buckets[n]
                 samples == SamplesOfDay(results, b.day)
             IN  /\ b.day % SecondsPerDay = 0
                 /\ Len(b.values) = Len(samples)
                 /\ \A m \in 1..Len(samples) :
                      LET o == b.values[m][1]
                          t == samples[m][1]
                      IN  /\ o \in 0..LastMinute
                          /\ b.day + o * SecondsPerMinute <= t
                          /\ t < b.day + (o + 1) * SecondsPerMinute

\* One call with samples at 23:59:30 and at 00:00:00 of the same day: one
\* bucket, offsets 1439 and 0.
C12_Witness ==
  /\ Len(args["A"].results) = 2
  /\ args["A"].results[1][1] = SecondsPerDay - 30
  /\ args["A"].results[2][1] = 0
  /\ Len(day_buckets["A"]) = 1
  /\ day_buckets["A"][1].day = 0
  /\ day_buckets["A"][1].values[1][1] = LastMinute
  /\ day_buckets["A"][1].values[2][1] = 0
  /\ pc["A"] = "returned"

(* ------------------------------- C13 ---------------------------------- *)

RawKeyOf(r) == <<r.timestamp, r.indicator_id>>

\* The statements executed on one key of indicatorvalue, in serial order.
RawKeyLog(k) ==
  LET OnKey(e) == RawKeyOf(e) = k
  IN  SelectSeq(rawlog, OnKey)

\* C13: after any sequence of raw upserts, the keys of indicatorvalue are the
\* keys upserted so far, each key has one row, and the row's value is that of
\* the last statement the engine executed on the key (so no statement on
\* another key changed it).
C13_RawLastSerializedWins ==
  /\ {RawKeyOf(r) : r \in raw} = {RawKeyOf(rawlog[i]) : i \in 1..Len(rawlog)}
  /\ \A r \in raw :
       LET on == RawKeyLog(RawKeyOf(r))
       IN  /\ Cardinality({q \in raw : RawKeyOf(q) = RawKeyOf(r)}) = 1
           /\ r.value = on[Len(on)].value

\* A key upserted twice with different values, another key in between.
C13_Witness ==
  /\ Len(rawlog) = 3
  /\ RawKeyOf(rawlog[1]) = RawKeyOf(rawlog[3])
  /\ RawKeyOf(rawlog[2]) # RawKeyOf(rawlog[1])
  /\ rawlog[1].value # rawlog[3].value
  /\ as_dict(rawlog[3]) \in raw
  /\ as_dict(rawlog[2]) \in raw

(* ------------------------------- C14 ---------------------------------- *)

\* C14: a raw upsert that repeats the one executed just before it, with the
\* same timestamp, indicator id and value, leaves indicatorvalue as it was.
C14_RawUpsertIdempotent ==
  [][(/\ Len(rawlog) > 0
      /\ rawlog' = Append(rawlog, rawlog[Len(rawlog)])) => raw' = raw]_vars

\* A key that held another value is upserted twice with the same value.
C14_Witness ==
  /\ Len(rawlog) = 3
  /\ RawKeyOf(rawlog[1]) = RawKeyOf(rawlog[2])
  /\ rawlog[1].value # rawlog[2].value
  /\ rawlog[3] = rawlog[2]
  /\ raw = {as_dict(rawlog[3])}

(* ------------------------------- C15 ---------------------------------- *)

\* offset := integer, 0..1439
IsOffset(s) == Len(s) > 0 /\ AllDigits(s) /\ DigitsVal(s) \in 0..LastMinute

\* value := decimal literal, up to 3 fractional digits
IsDecimal(s) ==
  LET body == IF Len(s) > 0 /\ s[1] = "-" THEN Tail(s) ELSE s
      parts == Split(body, ".")
  IN  /\ Len(parts) = 2
      /\ Len(parts[1]) > 0 /\ AllDigits(parts[1])
      /\ Len(parts[2]) \in 1..NDIGITS /\ AllDigits(parts[2])

\* entry := offset ":" value ","  (the text before the ',')
IsEntry(t) ==
  /\ ColonCount(t) = 1
  /\ IsOffset(Split(t, ":")[1])
  /\ IsDecimal(Split(t, ":")[2])

\* entry+ : one or more entries, each closed by its ','.
WellFormed(blob) ==
  LET tokens == Split(blob, ",")
  IN  /\ Len(tokens) >= 2
      /\ tokens[Len(tokens)] = <<>>
      /\ \A i \in 1..(Len(tokens) - 1) : IsEntry(tokens[i])

\* C15 as stated: in every reachable state every stored blob is one or more
\* entries offset ':' value ',' of the blob grammar, the offset an integer of
\* 0..1439, the value a decimal literal, the blob ending in ','.
C15_BlobsWellFormed == \A r \in compact : WellFormed(r.values)

(* ------------------------------- C16 ---------------------------------- *)

\* The statements of call c, in the engine's serial order.
CallLog(c) ==
  LET OfCall(e) == e.call = c
  IN  SelectSeq(log, OfCall)

DaysOf(results) == {DayOf(results[i][1]) : i \in 1..Len(results)}

\* What the samples of one day are stored as: offset and clamped, rounded
\* value, sample by sample.
UnitsOfDay(results, day) ==
  LET samples == SamplesOfDay(results, day)
  IN  [m \in 1..Len(samples) |->
         <<OffsetOf(samples[m][1]), ClampAndRound(samples[m][2], MIN_VAL)>>]

\* C16: a call that returned has executed as many statements as its batch has
\* distinct days, one for each day, and the statement of a day carries that
\* day's samples and no others, each once; the days' segments together hold
\* as many entries as the batch has samples.
C16_OneStatementPerDay ==
  \A w \in Writers :
    pc[w] = "returned" =>
      LET results == args[w].results
          mine == CallLog(args[w].call)
      IN  /\ Len(mine) = Cardinality(DaysOf(results))
          /\ Len(AllPairs(mine)) = Len(results)
          /\ \A d \in DaysOf(results) :
               \E i \in 1..Len(mine) :
                 /\ mine[i].timebucket = d
                 /\ mine[i].indicator_id = args[w].indicator_id
                 /\ mine[i].pairs = UnitsOfDay(results, d)
                 /\ \A j \in 1..Len(mine) : mine[j].timebucket = d => j = i

\* A batch with samples of two days returned after two statements.
C16_Witness ==
  /\ pc["A"] = "returned"
  /\ Len(args["A"].results) = MaxBatch
  /\ Cardinality(DaysOf(args["A"].results)) = 2
  /\ Len(log) = 2
  /\ Cardinality(compact) = 2

(* ------------------------------- C17 ---------------------------------- *)

\* C17: the segment a call writes for a day holds one token per sample of that
\* day, in the order in which the caller's mapping yields them: the m-th token
\* has the offset and the value of the m-th sample of the day, whether or not
\* the offsets ascend or repeat.
C17_TokensInInputOrder ==
  \A r \in compact :
    LET entries == KeyLog(r.timebucket, r.indicator_id)
    IN  Len(entries) = 1 =>
          LET samples == SamplesOfDay(args[entries[1].w].results, r.timebucket)
              tokens == Split(r.values, ",")
          IN  /\ Len(tokens) = Len(samples) + 1
              /\ \A m \in 1..Len(samples) :
                   LET sides == Split(tokens[m], ":")
                   IN  /\ Len(sides) = 2
                       /\ ParseInt(sides[1]) =
                            [ok |-> TRUE,
                             val |-> (samples[m][1] - r.timebucket)
                                       \div SecondsPerMinute]
                       /\ ParseFloat(sides[2]) =
                            [ok |-> TRUE,
                             val |-> ClampAndRound(samples[m][2], MIN_VAL)]

\* A batch with 00:00:30 first and 00:00:00 second, the values different:
\* two tokens of offset 0, the value of 00:00:30 first.
C17_Witness ==
  /\ Len(args["A"].results) = 2
  /\ args["A"].results[1][1] = 30
  /\ args["A"].results[2][1] = 0
  /\ args["A"].results[1][2] = Fin(1, 2 * Unit)
  /\ args["A"].results[2][2] = Fin(-1, Unit + 625)
  /\ \E r \in compact :
       r.values = <<"0", ":", "2", ".", "0", ",",
                    "0", ":", "-", "1", ".", "0", "6", "2", ",">>

(* ------------------------------- C18 ---------------------------------- *)

\* The rows of table whose key is not (timebucket, indicator_id).
RowsBut(table, timebucket, indicator_id) ==
  table \ RowsOf(table, <<timebucket, indicator_id>>)

\* C18: a statement of a compact upsert for indicator i changes at most the
\* bucket (d, i) of a day d of its batch: every other bucket, of another
\* indicator or another day, and every raw row is as before; a step of a
\* call that executes no statement changes neither table; and a raw upsert
\* leaves every compact bucket as it was.
C18_OnlyOwnBucketsChange ==
  [][/\ \A w \in Writers :
          Executes(w) =>
            LET d == CurrentBucket(w).day
                i == args[w].indicator_id
            IN  /\ d \in DaysOf(args[w].results)
                /\ RowsBut(compact', d, i) = RowsBut(compact, d, i)
                /\ raw' = raw
     /\ log' = log => compact' = compact
     /\ rawlog' = rawlog => raw' = raw]_vars

\* Both indicators have a bucket for day 0, indicator 1 has one for day 1 as
\* well, written by two statements of one call, and both indicators have a
\* raw row at 00:00:00.
C18_Witness ==
  /\ Cardinality(raw) = 2
  /\ HasRow(compact, 0, 1) /\ HasRow(compact, 0, 2)
  /\ HasRow(compact, SecondsPerDay, 1)
  /\ \E m, n \in 1..Len(log) :
       /\ m # n
       /\ log[m].call = log[n].call
       /\ log[m].indicator_id = 1

(* ------------------------------- C19 ---------------------------------- *)

\* Caller w enters a call with an empty batch.
CallsWithNothing(w) ==
  pc[w] = "idle" /\ pc'[w] # "idle" /\ args'[w].results = <<>>

\* C19: a call with an empty batch returns at once, having executed no
\* statement and changed no row; and after every step no row has the empty
\* blob or the blob ",": every blob holds an entry.
C19_EmptyBatchWritesNothing ==
  [][/\ \A w \in Writers :
          CallsWithNothing(w) =>
            /\ pc'[w] = "returned"
            /\ compact' = compact /\ log' = log /\ raw' = raw
     /\ \A w \in Writers :
          (pc[w] = "returned" /\ args[w].results = <<>>) =>
            \A i \in 1..Len(log') : log'[i].call # args[w].call
     /\ \A r \in compact' :
          /\ r.values # <<>>
          /\ r.values # <<",">>
          /\ \E i \in 1..Len(Split(r.values, ",")) :
               IsEntry(Split(r.values, ",")[i])]_vars

\* Caller B called with an empty batch, and returned, while A was between
\* the two statements of its call.
C19_Witness ==
  /\ pc["A"] = "loop" /\ pos["A"] = 1
  /\ args["B"].call = 2
  /\ args["B"].results = <<>>
  /\ pc["B"] = "returned"
  /\ Cardinality(compact) = 1
  /\ Len(log) = 1

(* ------------------------------- C20 ---------------------------------- *)

\* Caller w's call ended with the error of its statement number pos[w] + 1:
\* the statements of the days before it were executed, in the order of the
\* loop, and are in their rows; no statement of that day or a later one was.
StoppedAtFailure(w) ==
  LET mine == CallLog(args[w].call)
  IN  /\ pos[w] < Len(day_buckets[w])
      /\ Len(mine) = pos[w]
      /\ \A n \in 1..pos[w] :
           /\ mine[n].timebucket = day_buckets[w][n].day
           /\ mine[n].pairs = day_buckets[w][n].values
           /\ \E r \in compact :
                /\ r.timebucket = mine[n].timebucket
                /\ r.indicator_id = args[w].indicator_id
                /\ r.values = Segments(KeyLog(r.timebucket, r.indicator_id))

\* C20: a batch of several days is not atomic.  A statement that fails ends
\* the call at once with the error; from then on the caller executes nothing
\* more for that call, and the statements it executed before the failure
\* stay in their rows, whatever other callers do in between or afterwards.
C20_FailureStopsAndKeepsEarlier ==
  [][\A w \in Writers :
       /\ attempts'[w] > 0 => pc'[w] = "raised"
       /\ pc'[w] = "raised" => StoppedAtFailure(w)'
       /\ pc[w] = "raised" =>
            /\ pc'[w] = "raised" /\ pos'[w] = pos[w]
            /\ CallLog(args[w].call)' = CallLog(args[w].call)]_vars

\* A's statement for day 0 was executed, B's statement on the same bucket
\* was serialized after it, then A's statement for day 1 failed: the row
\* holds A's segment followed by B's, and day 1 has no row.
C20_Witness ==
  /\ pc["A"] = "raised" /\ pos["A"] = 1 /\ Len(day_buckets["A"]) = 2
  /\ pc["B"] = "returned"
  /\ Len(log) = 2
  /\ log[1].w = "A" /\ log[2].w = "B"
  /\ log[1].timebucket = log[2].timebucket
  /\ log[1].indicator_id = log[2].indicator_id
  /\ compact = {[timebucket |-> log[1].timebucket,
                 indicator_id |-> log[1].indicator_id,
                 values |-> Encode(log[1].pairs) \o Encode(log[2].pairs)]}

====
